---- MODULE Spec2Model ----
(***************************************************************************)
(* Model of edg_acoustics.mesh.Mesh (src/edg_acoustics/mesh.py):           *)
(*   - Mesh.__init_from_file: label validation, partition of the boundary  *)
(*     triangles, call of the connectivity builder;                        *)
(*   - Mesh.__compute_element_connectivity: the sort-based face matching   *)
(*     that produces EToE and EToF;                                        *)
(*   - Mesh.__eq__.                                                        *)
(* Arrays are sequences (position i of the source is position i+1 here);   *)
(* the values they hold (vertex, element, face and slot indices) are the   *)
(* 0-based values of the source.                                           *)
(***************************************************************************)
EXTENDS Integers, Sequences, FiniteSets, TLC

\* ------------------------------------------------------------------ bounds
\* vertex indices are 0 .. NumVertices-1
NumVertices == 6
\* meshes have 1 .. MaxTets tetrahedra
MaxTets == 3
\* hash collisions are explored on meshes of at most MaxCollideTets tetrahedra
MaxCollideTets == 2
\* raw boundary triangles: 1 .. MaxTriangles; physical codes: 1 .. MaxCode
MaxTriangles == 2
MaxCode == 2

\* ------------------------------------------------------- program constants
N_faces_per_tet == 4

\* local vertex positions of the four faces (0-based, as in the source)
FaceLocalVertices == << <<0, 1, 2>>, <<0, 1, 3>>, <<1, 2, 3>>, <<0, 2, 3>> >>

\* ----------------------------------------------------------------- helpers
Range(s) == {s[i] : i \in DOMAIN s}

Min(S) == CHOOSE x \in S : \A y \in S : x <= y

\* all the sequences that list the elements of the finite set S once each
RECURSIVE Arrangements(_)
Arrangements(S) ==
    IF S = {} THEN {<<>>}
    ELSE UNION {{<<x>> \o r : r \in Arrangements(S \ {x})} : x \in S}

\* ascending sort of a finite set of integers, as a sequence
RECURSIVE SortedSeq(_)
SortedSeq(S) ==
    IF S = {} THEN <<>> ELSE <<Min(S)>> \o SortedSeq(S \ {Min(S)})

\* ascending sort of a sequence of integers, duplicates kept (Python sorted())
RECURSIVE SortedList(_)
SortedList(s) ==
    IF s = <<>> THEN <<>>
    ELSE LET i == CHOOSE i \in DOMAIN s : \A j \in DOMAIN s : s[i] <= s[j]
             rest == [k \in 1..(Len(s) - 1) |-> IF k < i THEN s[k] ELSE s[k + 1]]
         IN  <<s[i]>> \o SortedList(rest)

\* the subsequence of s at the positions where mask is TRUE (boolean indexing)
RECURSIVE Masked(_, _)
Masked(s, mask) ==
    IF s = <<>> THEN <<>>
    ELSE (IF Head(mask) THEN <<Head(s)>> ELSE <<>>) \o Masked(Tail(s), Tail(mask))

\* number of TRUE entries of a boolean sequence (mask.sum())
RECURSIVE CountTrue(_)
CountTrue(mask) ==
    IF mask = <<>> THEN 0
    ELSE (IF Head(mask) THEN 1 ELSE 0) + CountTrue(Tail(mask))

\* ------------------------------------------------- connectivity: operators
Vertices == 0..(NumVertices - 1)

\* the cells (f, e) of a (4, N) table
Cells(N) == (0..(N_faces_per_tet - 1)) \X (0..(N - 1))

\* numpy.unravel_index(s, (4, N)): slot s is row s // N, column s % N
UnravelIndex(s, N) == <<s \div N, s % N>>

\* the three vertices of local face f of element e, in the tetrahedron's order
FaceOf(tets, f, e) ==
    [k \in 1..3 |-> tets[e + 1][FaceLocalVertices[f + 1][k] + 1]]

\* face_vertices after the vstack and the row sort: row f*N + e is the sorted
\* vertex triple of local face f of element e
FaceVerticesOf(tets) ==
    LET N == Len(tets)
    IN  [r \in 1..(N_faces_per_tet * N) |->
            SortedList(FaceOf(tets, (r - 1) \div N, (r - 1) % N))]

\* the exact identifier of a sorted triple (the "old algorithm" of the source)
Enc(row) == row[1] * NumVertices * NumVertices + row[2] * NumVertices + row[3]

\* hash(tuple(x)): a function of the triple alone, not injective: hc is <<>>
\* (no two triples of the mesh collide) or a pair <<t1, t2>> of triples that
\* the hash sends to the same value
Hash(row, hc) ==
    IF hc # <<>> /\ row = hc[2] THEN Enc(hc[1]) ELSE Enc(row)

\* numpy.argsort(keys): every ordering of the indices 0..n-1 that puts the keys in
\* nondecreasing order (the default sort is not stable: equal keys in any order)
RECURSIVE ArgsortsOver(_, _)
ArgsortsOver(keys, vals) ==
    IF vals = {} THEN {<<>>}
    ELSE LET k == Min(vals)
             grp == {i - 1 : i \in {j \in DOMAIN keys : keys[j] = k}}
         IN  {a \o r : a \in Arrangements(grp), r \in ArgsortsOver(keys, vals \ {k})}

Argsorts(keys) == ArgsortsOver(keys, Range(keys))

\* arr[idx] for an index array idx of 0-based positions
Take(arr, idx) == [k \in 1..Len(idx) |-> arr[idx[k] + 1]]

\* numpy.where(ids[0:-1] == ids[1:]): ascending 0-based positions i with
\* ids[i] = ids[i+1]
InteriorIdx(ids) ==
    SortedSeq({i \in 0..(Len(ids) - 2) : ids[i + 1] = ids[i + 2]})

InitEToE(N) == [c \in Cells(N) |-> c[2]]

\* faulty variant of InitEToF: EToF initialised like EToE, with the element index
InitEToFAsEToE(N) == [c \in Cells(N) |-> c[2]]

InitEToF(N) == [c \in Cells(N) |-> c[1]]

\* A[targets] = values with an index array that may repeat a cell: a cell set
\* more than once ends with any one of the values set to it (numpy gives no
\* guarantee for the iteration order of an advanced assignment)
RECURSIVE AssignOver(_, _, _, _)
AssignOver(A, targets, values, cells) ==
    IF cells = {} THEN {A}
    ELSE LET c == CHOOSE x \in cells : TRUE
             opts == {values[j] : j \in {i \in DOMAIN targets : targets[i] = c}}
         IN  {[g EXCEPT ![c] = v] :
                g \in AssignOver(A, targets, values, cells \ {c}), v \in opts}

AssignOutcomes(A, targets, values) ==
    AssignOver(A, targets, values, Range(targets))

\* ------------------------------------------------------- Mesh: operators
\* list(d.values()) of a dict d (a function on its keys)
RECURSIVE DictValuesOver(_, _)
DictValuesOver(d, keys) ==
    IF keys = {} THEN <<>>
    ELSE LET k == CHOOSE x \in keys : TRUE
         IN  <<d[k]>> \o DictValuesOver(d, keys \ {k})

DictValues(d) == DictValuesOver(d, DOMAIN d)

\* faulty variant of LabelsConsistent: the two collections compared as sets, so
\* that two labels with one code are accepted
LabelsConsistentAsSets(physical, labels) ==
    Range(DictValues(labels)) = Range(physical)

\* sorted(numpy.unique(physical)) == sorted(BC_labels.values())
LabelsConsistent(physical, labels) ==
    SortedList(DictValues(labels)) = SortedSeq(Range(physical))

\* physical == BC_labels[label]
TrianglesHaveLabel(physical, code) ==
    [i \in 1..Len(physical) |-> physical[i] = code]

\* numpy.array_equal: same shape and equal entries
ArrayEqual(a, b) ==
    /\ Len(a) = Len(b)
    /\ \A i \in 1..Len(a) : a[i] = b[i]

\* == of two dicts
DictEqual(a, b) ==
    /\ DOMAIN a = DOMAIN b
    /\ \A k \in DOMAIN a : a[k] = b[k]

\* faulty variant of MeshEq: the adjacency tables take part in the comparison
MeshEqWithAdjacency(s, o) ==
    IF o.kind = s.kind
    THEN /\ s.N_vertices = o.N_vertices
         /\ s.N_tets = o.N_tets
         /\ DictEqual(s.N_BC_triangles, o.N_BC_triangles)
         /\ ArrayEqual(s.vertices, o.vertices)
         /\ ArrayEqual(s.tets, o.tets)
         /\ \A key \in DOMAIN s.BC_triangles :
                ArrayEqual(s.BC_triangles[key], o.BC_triangles[key])
         /\ s.EToE = o.EToE
         /\ s.EToF = o.EToF
    ELSE FALSE

\* Mesh.__eq__(s, o)
MeshEq(s, o) ==
    IF o.kind = s.kind
    THEN /\ s.N_vertices = o.N_vertices
         /\ s.N_tets = o.N_tets
         /\ DictEqual(s.N_BC_triangles, o.N_BC_triangles)
         /\ ArrayEqual(s.vertices, o.vertices)
         /\ ArrayEqual(s.tets, o.tets)
         /\ \A key \in DOMAIN s.BC_triangles :
                ArrayEqual(s.BC_triangles[key], o.BC_triangles[key])
    ELSE FALSE

\* ------------------------------------------------------------------ state
VARIABLES
    mesh_data,      \* what meshio.read returned: points, tetra, triangle, physical
    BC_labels,      \* the caller's dict: label name -> physical code
    hash_collision, \* the pair of triples the hash sends to one value, or <<>>
    pc,             \* position in Mesh.__init__ ("done": returned; "error": raised)
    self,           \* the attributes of the Mesh under construction
    assigned,       \* the names of the attributes assigned so far
    face_vertices, face_ids, face_vertices_idx,     \* locals of the builder
    interior_L_face_vertices_idx, interior_R_face_vertices_idx,
    EToE, EToF,
    first,          \* a Mesh constructed earlier (kind "Mesh"), or kind "none"
    eq_other,       \* the right operand of the last ==, or kind "none"
    eq_result       \* the value the last == returned

locals == <<face_vertices, face_ids, face_vertices_idx,
            interior_L_face_vertices_idx, interior_R_face_vertices_idx, EToE, EToF>>

inputs == <<mesh_data, BC_labels, hash_collision>>

vars == <<inputs, pc, self, assigned, locals, first, eq_other, eq_result>>

NoObject == [kind |-> "none"]

\* an object whose attributes are not assigned yet
EmptyMesh ==
    [kind |-> "Mesh", N_vertices |-> 0, vertices |-> <<>>,
     N_BC_triangles |-> <<>>, BC_triangles |-> <<>>,
     N_tets |-> 0, tets |-> <<>>, EToE |-> <<>>, EToF |-> <<>>]

NoLocals ==
    /\ face_vertices = <<>>
    /\ face_ids = <<>>
    /\ face_vertices_idx = <<>>
    /\ interior_L_face_vertices_idx = <<>>
    /\ interior_R_face_vertices_idx = <<>>
    /\ EToE = <<>>
    /\ EToF = <<>>

\* ----------------------------------------------------------------- inputs
\* the tetrahedra around vertex 0, their vertices in ascending order
AscendingTets ==
    {t \in {0} \X Vertices \X Vertices \X Vertices :
        t[1] < t[2] /\ t[2] < t[3] /\ t[3] < t[4]}

\* the orders in which a tetrahedron may list its four vertices
TetOrders == {<<1, 2, 3, 4>>, <<2, 3, 4, 1>>}

Reorder(t, o) == [k \in 1..4 |-> t[o[k]]]

\* meshes of 1..MaxTets tetrahedra, no two on the same four vertices
TetArrays ==
    UNION {{[e \in 1..n |-> Reorder(a[e], o)] :
                a \in {b \in [1..n -> AscendingTets] :
                         \A i, j \in 1..n : i < j => b[i] # b[j]},
                o \in TetOrders} :
           n \in 1..MaxTets}

\* the hash is exact on the faces of the mesh, or sends two of them to one value
Collisions(tets) ==
    LET faces == Range(FaceVerticesOf(tets))
    IN  {<<>>} \cup
        (IF Len(tets) <= MaxCollideTets
         THEN {<<t1, t2>> : t1, t2 \in faces} \cap
              {c \in faces \X faces : Enc(c[1]) < Enc(c[2])}
         ELSE {})

Points == [v \in 1..NumVertices |-> <<v - 1, 0, 0>>]

LabelNames == {"slip", "impedance"}

LabelMaps == UNION {[D -> 1..MaxCode] : D \in SUBSET LabelNames}

PhysicalArrays == UNION {[1..n -> 1..MaxCode] : n \in 1..MaxTriangles}

\* the renumberings of the vertices applied to a mesh file
RelabelPerms ==
    {[v \in Vertices |-> IF v = 0 THEN 1 ELSE IF v = 1 THEN 0 ELSE v],
     [v \in Vertices |-> (v + 1) % NumVertices]}

\* the mesh file d with every vertex index v replaced by p[v]
Relabelled(d, p) ==
    [points   |-> [i \in 1..Len(d.points) |->
                     d.points[(CHOOSE v \in Vertices : p[v] = i - 1) + 1]],
     tetra    |-> [e \in 1..Len(d.tetra) |-> [k \in 1..4 |-> p[d.tetra[e][k]]]],
     triangle |-> [t \in 1..Len(d.triangle) |-> [k \in 1..3 |-> p[d.triangle[t][k]]]],
     physical |-> d.physical]

InitObject ==
    /\ pc = "read_points"
    /\ self = EmptyMesh
    /\ assigned = {}
    /\ NoLocals
    /\ first = NoObject
    /\ eq_other = NoObject
    /\ eq_result = FALSE

\* meshes of every shape with one boundary label
InitTopology ==
    /\ \E tets \in TetArrays :
        /\ mesh_data = [points |-> Points, tetra |-> tets,
                        triangle |-> << <<0, 1, 2>> >>, physical |-> <<1>>]
        /\ hash_collision \in Collisions(tets)
    /\ BC_labels = [slip |-> 1]

\* one tetrahedron with every labelling of its boundary triangles
InitLabels ==
    /\ \E physical \in PhysicalArrays :
        mesh_data = [points |-> Points, tetra |-> << <<0, 1, 2, 3>> >>,
                     triangle |-> [i \in 1..Len(physical) |-> <<0, 1, i + 1>>],
                     physical |-> physical]
    /\ BC_labels \in LabelMaps
    /\ hash_collision = <<>>

Init == (InitTopology \/ InitLabels) /\ InitObject

\* ------------------------------------------------ Mesh.__init_from_file
\* self.N_vertices, self.vertices
ReadPoints ==
    /\ pc = "read_points"
    /\ self' = [self EXCEPT !.N_vertices = Len(mesh_data.points),
                            !.vertices = mesh_data.points]
    /\ assigned' = assigned \cup {"N_vertices", "vertices"}
    /\ pc' = "check_labels"
    /\ UNCHANGED <<inputs, locals, first, eq_other, eq_result>>

\* faulty variant of CheckLabels: the labels are checked after the boundary
\* triangles have been stored
CheckLabelsAfterPartition ==
    /\ pc = "check_labels"
    /\ self' = [self EXCEPT
           !.N_BC_triangles = [BC_label \in DOMAIN BC_labels |->
               CountTrue(TrianglesHaveLabel(mesh_data.physical, BC_labels[BC_label]))],
           !.BC_triangles = [BC_label \in DOMAIN BC_labels |->
               Masked(mesh_data.triangle,
                      TrianglesHaveLabel(mesh_data.physical, BC_labels[BC_label]))]]
    /\ assigned' = assigned \cup {"N_BC_triangles", "BC_triangles"}
    /\ pc' = IF LabelsConsistent(mesh_data.physical, BC_labels)
             THEN "read_tets" ELSE "error"
    /\ UNCHANGED <<inputs, locals, first, eq_other, eq_result>>

\* the labels of the mesh against the labels of the caller; ValueError if they differ
CheckLabels ==
    /\ pc = "check_labels"
    /\ pc' = IF LabelsConsistent(mesh_data.physical, BC_labels)
             THEN "read_triangles" ELSE "error"
    /\ UNCHANGED <<inputs, self, assigned, locals, first, eq_other, eq_result>>

\* self.N_BC_triangles, self.BC_triangles: the triangles of each label
ReadBoundaryTriangles ==
    /\ pc = "read_triangles"
    /\ self' = [self EXCEPT
           !.N_BC_triangles = [BC_label \in DOMAIN BC_labels |->
               CountTrue(TrianglesHaveLabel(mesh_data.physical, BC_labels[BC_label]))],
           !.BC_triangles = [BC_label \in DOMAIN BC_labels |->
               Masked(mesh_data.triangle,
                      TrianglesHaveLabel(mesh_data.physical, BC_labels[BC_label]))]]
    /\ assigned' = assigned \cup {"N_BC_triangles", "BC_triangles"}
    /\ pc' = "read_tets"
    /\ UNCHANGED <<inputs, locals, first, eq_other, eq_result>>

\* self.N_tets, self.tets; then the call of the connectivity builder
ReadTets ==
    /\ pc = "read_tets"
    /\ self' = [self EXCEPT !.N_tets = Len(mesh_data.tetra), !.tets = mesh_data.tetra]
    /\ assigned' = assigned \cup {"N_tets", "tets"}
    /\ pc' = "faces"
    /\ UNCHANGED <<inputs, locals, first, eq_other, eq_result>>

\* --------------------------------- Mesh.__compute_element_connectivity
\* face_vertices (sorted rows), face_vertices_idx, the initial EToE and EToF,
\* face_ids
ComputeFaces ==
    /\ pc = "faces"
    /\ face_vertices' = FaceVerticesOf(self.tets)
    /\ face_vertices_idx' = [r \in 1..(N_faces_per_tet * Len(self.tets)) |-> r - 1]
    /\ EToE' = InitEToE(Len(self.tets))
    /\ EToF' = InitEToF(Len(self.tets))
    /\ face_ids' = [r \in 1..(N_faces_per_tet * Len(self.tets)) |->
                       Hash(FaceVerticesOf(self.tets)[r], hash_collision)]
    /\ pc' = "sort"
    /\ UNCHANGED <<inputs, self, assigned, interior_L_face_vertices_idx,
                   interior_R_face_vertices_idx, first, eq_other, eq_result>>

\* argsort of face_ids; face_ids, face_vertices, face_vertices_idx reordered
SortFaceIds ==
    /\ pc = "sort"
    /\ \E face_ids_sort_indices \in Argsorts(face_ids) :
        /\ face_ids' = Take(face_ids, face_ids_sort_indices)
        /\ face_vertices' = Take(face_vertices, face_ids_sort_indices)
        /\ face_vertices_idx' = Take(face_vertices_idx, face_ids_sort_indices)
    /\ pc' = "interior"
    /\ UNCHANGED <<inputs, self, assigned, interior_L_face_vertices_idx,
                   interior_R_face_vertices_idx, EToE, EToF, first, eq_other, eq_result>>

\* the slots left and right of every pair of consecutive equal face_ids
FindInteriorFaces ==
    /\ pc = "interior"
    /\ LET interior_face_id_idx == InteriorIdx(face_ids)
       IN  /\ interior_L_face_vertices_idx' =
                 Take(face_vertices_idx, interior_face_id_idx)
           /\ interior_R_face_vertices_idx' =
                 Take(face_vertices_idx, [k \in 1..Len(interior_face_id_idx) |->
                                             interior_face_id_idx[k] + 1])
    /\ pc' = "EToE"
    /\ UNCHANGED <<inputs, self, assigned, face_vertices, face_ids, face_vertices_idx,
                   EToE, EToF, first, eq_other, eq_result>>

\* the cells of the slots of the index array idx
CellsOf(idx, N) == [k \in 1..Len(idx) |-> UnravelIndex(idx[k], N)]

\* EToE[L, R] = EToE[R, L]
ConstructEToE ==
    /\ pc = "EToE"
    /\ LET N == Len(self.tets)
           targets == CellsOf(interior_L_face_vertices_idx \o
                              interior_R_face_vertices_idx, N)
           sources == CellsOf(interior_R_face_vertices_idx \o
                              interior_L_face_vertices_idx, N)
           values == [k \in 1..Len(sources) |-> EToE[sources[k]]]
       IN  EToE' \in AssignOutcomes(EToE, targets, values)
    /\ pc' = "EToF"
    /\ UNCHANGED <<inputs, self, assigned, face_vertices, face_ids, face_vertices_idx,
                   interior_L_face_vertices_idx, interior_R_face_vertices_idx,
                   EToF, first, eq_other, eq_result>>

\* EToF[L, R] = EToF[R, L]
ConstructEToF ==
    /\ pc = "EToF"
    /\ LET N == Len(self.tets)
           targets == CellsOf(interior_L_face_vertices_idx \o
                              interior_R_face_vertices_idx, N)
           sources == CellsOf(interior_R_face_vertices_idx \o
                              interior_L_face_vertices_idx, N)
           values == [k \in 1..Len(sources) |-> EToF[sources[k]]]
       IN  EToF' \in AssignOutcomes(EToF, targets, values)
    /\ pc' = "return"
    /\ UNCHANGED <<inputs, self, assigned, face_vertices, face_ids, face_vertices_idx,
                   interior_L_face_vertices_idx, interior_R_face_vertices_idx,
                   EToE, first, eq_other, eq_result>>

\* return EToE, EToF; self.EToE, self.EToF = ...; the locals go out of scope
StoreConnectivity ==
    /\ pc = "return"
    /\ self' = [self EXCEPT !.EToE = EToE, !.EToF = EToF]
    /\ assigned' = assigned \cup {"EToE", "EToF"}
    /\ face_vertices' = <<>>
    /\ face_ids' = <<>>
    /\ face_vertices_idx' = <<>>
    /\ interior_L_face_vertices_idx' = <<>>
    /\ interior_R_face_vertices_idx' = <<>>
    /\ EToE' = <<>>
    /\ EToF' = <<>>
    /\ pc' = "done"
    /\ UNCHANGED <<inputs, first, eq_other, eq_result>>

\* ------------------------------------------------------------- Mesh.__eq__
\* d with its key old renamed to new
Renamed(d, old, new) ==
    [k \in (DOMAIN d \ {old}) \cup {new} |-> IF k = new THEN d[old] ELSE d[k]]

\* the right operands of ==: the Mesh constructed before this one if there
\* is one; otherwise the mesh itself, meshes that differ from it in one
\* attribute, and a value that is not a Mesh
Operands(s) ==
    IF first.kind = "Mesh" THEN {first} ELSE
    {s,
     [s EXCEPT !.EToE = InitEToE(s.N_tets), !.EToF = InitEToF(s.N_tets)],
     [s EXCEPT !.vertices[1] = <<0, 0, 1>>],
     [s EXCEPT !.vertices = Append(s.vertices, <<0, 1, 0>>),
               !.N_vertices = s.N_vertices + 1],
     [s EXCEPT !.tets[1] = Reorder(s.tets[1], <<4, 3, 2, 1>>)],
     [kind |-> "int", value |-> 0]}
    \cup {[s EXCEPT !.BC_triangles[l][1] = <<0, 2, 1>>] :
            l \in {k \in DOMAIN s.BC_triangles : s.BC_triangles[k] # <<>>}}
    \cup {[s EXCEPT !.BC_triangles = Renamed(s.BC_triangles, l, "outflow"),
                    !.N_BC_triangles = Renamed(s.N_BC_triangles, l, "outflow")] :
            l \in DOMAIN s.BC_triangles}

\* self == other
Compare ==
    /\ pc = "done"
    /\ \E other \in Operands(self) :
        /\ eq_other' = other
        /\ eq_result' = MeshEq(self, other)
    /\ UNCHANGED <<inputs, pc, self, assigned, locals, first>>

\* a second Mesh, constructed from the same file with its vertices renumbered
\* by p; the first one is kept
ConstructRelabelled ==
    /\ pc = "done"
    /\ first = NoObject
    /\ \E p \in RelabelPerms : mesh_data' = Relabelled(mesh_data, p)
    /\ first' = self
    /\ self' = EmptyMesh
    /\ assigned' = {}
    /\ eq_other' = NoObject
    /\ eq_result' = FALSE
    /\ pc' = "read_points"
    /\ UNCHANGED <<BC_labels, hash_collision, locals>>

\* a second Mesh, constructed from the same file read again; the first one is
\* kept
ConstructAgain ==
    /\ pc = "done"
    /\ first = NoObject
    /\ first' = self
    /\ self' = EmptyMesh
    /\ assigned' = {}
    /\ eq_other' = NoObject
    /\ eq_result' = FALSE
    /\ pc' = "read_points"
    /\ UNCHANGED <<inputs, locals>>

Next ==
    \/ ReadPoints
    \/ CheckLabels
    \/ ReadBoundaryTriangles
    \/ ReadTets
    \/ ComputeFaces
    \/ SortFaceIds
    \/ FindInteriorFaces
    \/ ConstructEToE
    \/ ConstructEToF
    \/ StoreConnectivity
    \/ Compare
    \/ ConstructRelabelled
    \/ ConstructAgain

Spec == Init /\ [][Next]_vars

\* ================================================================= claims
\* the vertex set of local face c[1] of element c[2] of the mesh
FaceSet(c) == Range(FaceOf(self.tets, c[1], c[2]))

MeshCells == Cells(self.N_tets)

\* the face slots 0 .. 4N-1, and the cell (f, e) of a slot
Slots == 0..(N_faces_per_tet * self.N_tets - 1)

CellOf(s) == UnravelIndex(s, self.N_tets)

\* the key the builder gives to every slot: position s+1 holds the key of slot s
SlotKeys ==
    [r \in 1..(N_faces_per_tet * self.N_tets) |->
        Hash(SortedList(FaceOf(self.tets, CellOf(r - 1)[1], CellOf(r - 1)[2])),
             hash_collision)]

\* the builder is about to return its tables EToE and EToF
Returning == pc = "return"

\* some key belongs to three or more face slots
KeyOccursMoreThanTwice ==
    \E key \in {SlotKeys} :
        \E s \in Slots : Cardinality({t \in Slots : key[t + 1] = key[s + 1]}) > 2

\* C1: in the returned tables, for every element e and local face f, if
\* EToE[f,e] is not e then EToE[EToF[f,e], EToE[f,e]] = e and
\* EToF[EToF[f,e], EToE[f,e]] = f
AdjacencySymmetric ==
    Returning =>
        \A c \in MeshCells :
            EToE[c] # c[2] =>
                /\ EToE[<<EToF[c], EToE[c]>>] = c[2]
                /\ EToF[<<EToF[c], EToE[c]>>] = c[1]

\* every face vertex set belongs to at most two (element, local face) slots
AtMostTwoSlotsPerFace ==
    \A c \in MeshCells : Cardinality({d \in MeshCells : FaceSet(d) = FaceSet(c)}) <= 2

\* C2: when every face vertex set belongs to at most two slots, the returned
\* tables give, for every slot (f,e), the slot (f2,e2) of the other element with
\* the same three vertices if there is one, and (f,e) itself if there is none
MatchesReferenceAdjacency ==
    (Returning /\ AtMostTwoSlotsPerFace) =>
        \A c \in MeshCells :
            LET nb == {d \in MeshCells : d[2] # c[2] /\ FaceSet(d) = FaceSet(c)}
            IN  IF nb # {}
                THEN <<EToF[c], EToE[c]>> \in nb
                ELSE EToE[c] = c[2] /\ EToF[c] = c[1]

\* C3: every pair of slots the builder writes into one another (a left slot
\* and its right slot) has the same three vertices
PairsOnlyIdenticalFaces ==
    pc \in {"EToE", "EToF", "return"} =>
        \A k \in 1..Len(interior_L_face_vertices_idx) :
            FaceSet(UnravelIndex(interior_L_face_vertices_idx[k], self.N_tets)) =
            FaceSet(UnravelIndex(interior_R_face_vertices_idx[k], self.N_tets))

\* C4 as stated, on the meshes whose faces the hash tells apart and where no
\* key occurs more than twice: in the returned tables EToE[f,e] = e if and
\* only if EToF[f,e] = f
BoundaryMarkerConsistent ==
    (Returning /\ hash_collision = <<>> /\ ~KeyOccursMoreThanTwice) =>
        \A c \in MeshCells : (EToE[c] = c[2]) <=> (EToF[c] = c[1])

\* the slots whose key is the key of no other slot
UnmatchedSlots ==
    UNION {{s \in Slots : \A t \in Slots : t # s => key[t + 1] # key[s + 1]} :
           key \in {SlotKeys}}

\* C4 as amended: in the returned tables every slot (f,e) whose key is the key
\* of no other slot has EToE[f,e] = e and EToF[f,e] = f
UnmatchedSlotsSelfReferential ==
    Returning =>
        \A s \in UnmatchedSlots :
            EToE[CellOf(s)] = CellOf(s)[2] /\ EToF[CellOf(s)] = CellOf(s)[1]

\* tables are returned for a mesh that has a slot with a key of its own and a
\* matched slot whose neighbour uses the same local face index
UnmatchedAndSameIndexNeighbour ==
    /\ Returning
    /\ UnmatchedSlots # {}
    /\ \E c \in MeshCells : EToE[c] # c[2] /\ EToF[c] = c[1]

\* the codes of the raw boundary triangles, and the codes of the label map
CodesInMesh == Range(mesh_data.physical)

CodesInInput == {BC_labels[l] : l \in DOMAIN BC_labels}

\* C5: construction succeeds exactly when the set of codes on the raw boundary
\* triangles equals the set of values of the label map, and raises otherwise
LabelCheckIsSetEquality ==
    pc \notin {"read_points", "check_labels"} =>
        ((pc # "error") <=> (CodesInMesh = CodesInInput))

\* C6: when a face key occurs more than twice among the face slots the builder
\* raises and returns no tables
MalformedTopologyReported ==
    Returning => ~KeyOccursMoreThanTwice

\* the Mesh o has the attributes named in the equality contract equal to those
\* of the Mesh s
SameMeshData(s, o) ==
    /\ o.kind = "Mesh"
    /\ s.N_vertices = o.N_vertices
    /\ s.N_tets = o.N_tets
    /\ s.N_BC_triangles = o.N_BC_triangles
    /\ s.vertices = o.vertices
    /\ s.tets = o.tets
    /\ s.BC_triangles = o.BC_triangles

\* C7: a == b is true if and only if b is a Mesh whose vertex count, element
\* count, per-label triangle counts, vertex coordinates, tetrahedra and
\* per-label triangles equal those of a; EToE and EToF take no part
EqualityContract ==
    eq_other # NoObject => (eq_result <=> SameMeshData(self, eq_other))

\* a comparison returned true for a Mesh whose adjacency tables differ
EqualDespiteAdjacency ==
    /\ eq_other # NoObject
    /\ eq_result
    /\ eq_other.EToE # self.EToE

\* the positions of the raw triangles stored under label l, were each raw
\* triangle stored under the label whose code it carries
CarryingCode(l) ==
    {i \in 1..Len(mesh_data.physical) : mesh_data.physical[i] = BC_labels[l]}

\* C8: after a successful construction every raw boundary triangle is stored
\* under exactly one label, the one whose code it carries; the count of each
\* label is the number of triangles stored under it; the counts sum to the
\* number of raw boundary triangles
BoundaryTrianglesPartitioned ==
    pc = "done" =>
        /\ \A i \in 1..Len(mesh_data.triangle) :
              \E l \in DOMAIN self.BC_triangles :
                  /\ BC_labels[l] = mesh_data.physical[i]
                  /\ \A m \in DOMAIN self.BC_triangles :
                        (mesh_data.triangle[i] \in Range(self.BC_triangles[m])) <=> (m = l)
        /\ \A l \in DOMAIN self.BC_triangles :
              /\ self.N_BC_triangles[l] = Len(self.BC_triangles[l])
              /\ Len(self.BC_triangles[l]) = Cardinality(CarryingCode(l))
        /\ Cardinality(UNION {CarryingCode(l) : l \in DOMAIN self.BC_triangles})
              = Len(mesh_data.triangle)

\* a Mesh was constructed from triangles of two codes under two labels
TwoLabelsPartitioned ==
    /\ pc = "done"
    /\ Cardinality(DOMAIN self.BC_triangles) = 2
    /\ \A l \in DOMAIN self.BC_triangles : self.N_BC_triangles[l] = 1

\* C9 as stated: when the label validation fails no attribute of the Mesh is
\* assigned and the builder is not invoked
NothingAssignedOnError ==
    pc = "error" => (assigned = {} /\ self = EmptyMesh /\ NoLocals)

\* C9 as amended: when the label validation fails, the vertex count and the
\* vertex coordinates are the only attributes assigned, and the builder is not
\* invoked
OnlyVerticesAssignedOnError ==
    pc = "error" =>
        /\ assigned = {"N_vertices", "vertices"}
        /\ self = [EmptyMesh EXCEPT !.N_vertices = Len(mesh_data.points),
                                    !.vertices = mesh_data.points]
        /\ NoLocals

\* the construction raised on labels that do not match
RaisedOnMismatch == pc = "error" /\ CodesInMesh # CodesInInput

\* C10: the builder applied to the tetrahedra with every vertex index v
\* replaced by p(v) returns the EToE and EToF it returned for the original
RelabellingKeepsAdjacency ==
    (pc = "done" /\ first.kind = "Mesh") =>
        (self.EToE = first.EToE /\ self.EToF = first.EToF)

\* the Mesh constructed before this one was constructed from the same
\* tetrahedron array
SameTetsAsFirst == first.kind = "Mesh" /\ first.tets = self.tets

\* C11: for a given tetrahedron array the builder returns the same EToE and
\* EToF whatever order the sort gives to slots with equal keys: two
\* constructions from the same array have the same tables
SortOrderIndependent ==
    (pc = "done" /\ SameTetsAsFirst) =>
        (self.EToE = first.EToE /\ self.EToF = first.EToF)

====
